---- MODULE Spec2Model ----
(***************************************************************************)
(* The AI fallback orchestrator of scripts/brain.js: generateContent tries *)
(* Gemini (primary) up to maxRetries times with a backoff delay between    *)
(* attempts, then BigModel (secondary) once; generateBlogPost wraps it.    *)
(* generateAndSave of scripts/auto-generate.js calls generateBlogPost and   *)
(* then writes the post's file and runs the git, build and deploy steps.   *)
(* An invocation is an async function: it runs atomically from one await   *)
(* to the next, so each action below is one such run.                      *)
(***************************************************************************)
EXTENDS Integers, Sequences, FiniteSets, TLC

\* ------------------------------------------------------------------ bounds
\* Largest retry count a direct caller passes (sequential specification).
MaxRetriesBound == 3
\* Largest retry count a caller passes when two invocations are interleaved.
ConcRetriesBound == 2

\* --------------------------------------------------------- program constants
\* async function generateContent(prompt, maxRetries = 2)
DefaultMaxRetries == 2
\* await delay(1000 * attempt)
BaseDelayMs == 1000

Invocations == {1, 2}
Prompts == {"p1", "p2"}
Topics == {"t1"}
Languages == {"ar", "en"}
Timestamps == {"2026-01-01T00:00:00.000Z"}

\* ------------------------------------------------------- JavaScript values
Undefined == [t |-> "undefined", s |-> "", n |-> 0]
Null == [t |-> "null", s |-> "", n |-> 0]
Str(s) == [t |-> "string", s |-> s, n |-> 0]
Num(n) == [t |-> "number", s |-> "", n |-> n]
\* An Error object; s is its .message.
ErrorObj(msg) == [t |-> "error", s |-> msg, n |-> 0]

\* JavaScript truthiness, as tested by if (...) and by !x.
Truthy(v) ==
    CASE v.t = "string" -> v.s # ""
      [] v.t = "number" -> v.n # 0
      [] v.t = "error" -> TRUE
      [] OTHER -> FALSE

\* obj.field of an object literal: undefined when the literal has no such key.
HasField(obj, f) == f \in DOMAIN obj

\* ------------------------------------------------------ provider responses
\* What fetch() gives back.  kind = "reject": the promise rejects (network
\* error) with message raw.  kind = "response": an HTTP response with a
\* status, a body text raw, and, when the body parses as JSON (json = TRUE),
\* the value found at the path the extractor reads (Undefined when a link of
\* the optional chain is missing).
Reject(msg) ==
    [kind |-> "reject", status |-> 0, raw |-> msg, json |-> FALSE, text |-> Undefined]
HttpError(status, body) ==
    [kind |-> "response", status |-> status, raw |-> body, json |-> FALSE, text |-> Undefined]
NotJson ==
    [kind |-> "response", status |-> 200, raw |-> "<html>", json |-> FALSE, text |-> Undefined]
Json(text) ==
    [kind |-> "response", status |-> 200, raw |-> "{}", json |-> TRUE, text |-> text]

\* The texts a JSON body may carry at the extraction path.
Texts ==
    { Undefined, Str(""), Num(7), Str("plain"), Str("# Title\n## Sub\nbody") }

Responses ==
    { Reject("fetch failed"), HttpError(500, "boom"), HttpError(429, "quota"), NotJson }
        \cup { Json(v) : v \in Texts }

\* The smaller universe used when two invocations are interleaved.
ConcResponses ==
    { Reject("fetch failed"), HttpError(500, "boom"), Json(Str("plain")) }

\* response.ok: status in the range 200-299.
ResponseOk(resp) == resp.status >= 200 /\ resp.status <= 299

\* --------------------------------------------------- the provider adapters
\* A settled promise: fulfilled with value, or rejected with an Error.
Returned(v) == [ok |-> TRUE, value |-> v, message |-> ""]
Threw(msg) == [ok |-> FALSE, value |-> Undefined, message |-> msg]

extractGeminiContent(data) ==
    IF Truthy(data.text)
        THEN Returned(data.text)
        ELSE Threw("Invalid Gemini response format")

extractBigModelContent(data) ==
    IF Truthy(data.text)
        THEN Returned(data.text)
        ELSE Threw("Invalid BigModel response format")

callGemini(key, resp) ==
    IF ~Truthy(key)
        THEN Threw("GEMINI_API_KEY not set")
    ELSE IF resp.kind = "reject"
        THEN Threw(resp.raw)
    ELSE IF ~ResponseOk(resp)
        THEN Threw("HTTP " \o ToString(resp.status) \o ": " \o resp.raw)
    ELSE IF ~resp.json
        THEN Threw("Unexpected token < in JSON at position 0")
    ELSE extractGeminiContent(resp)

callBigModel(resp) ==
    IF resp.kind = "reject"
        THEN Threw(resp.raw)
    ELSE IF ~ResponseOk(resp)
        THEN Threw("HTTP " \o ToString(resp.status) \o ": " \o resp.raw)
    ELSE IF ~resp.json
        THEN Threw("Unexpected token < in JSON at position 0")
    ELSE extractBigModelContent(resp)

\* ------------------------------------------------ generateContent's pieces
\* The loop test off by one: one attempt too many.
LoopCondOffByOne(att, m) == att <= m + 1

\* for (let attempt = 1; attempt <= maxRetries; attempt++)
LoopCond(att, m) == att <= m

\* The delay test off by one: a delay after the last attempt too.
ShouldDelayAlways(att, m) == att <= m

\* if (attempt < maxRetries)
ShouldDelay(att, m) == att < m

\* delay(1000 * attempt)
BackoffMs(att) == BaseDelayMs * att

\* The primary's result built like the secondary's.
PrimaryResultAsFallback(content) ==
    [success |-> TRUE, source |-> "gemini", content |-> content,
     fallbackUsed |-> TRUE]

PrimaryResult(content) ==
    [success |-> TRUE, source |-> "gemini", content |-> content,
     fallbackUsed |-> FALSE]

\* The secondary's result tagged with the primary's source.
SecondaryResultAsPrimary(content) ==
    [success |-> TRUE, source |-> "gemini", content |-> content,
     fallbackUsed |-> TRUE]

SecondaryResult(content) ==
    [success |-> TRUE, source |-> "bigmodel", content |-> content,
     fallbackUsed |-> TRUE]

\* `Gemini: ${lastError.message} | BigModel: ${error.message}`
FailureResult(primaryMsg, secondaryMsg) ==
    [success |-> FALSE, source |-> "none", content |-> Null,
     error |-> "Gemini: " \o primaryMsg \o " | BigModel: " \o secondaryMsg,
     fallbackUsed |-> TRUE]

\* lastError.message when lastError is null.
NullMessageTypeError == "Cannot read properties of null (reading 'message')"

NoResult == [pending |-> TRUE]

\* An entry of trace: a provider call or a delay the invocation started.
Ev(name, ms) == [ev |-> name, ms |-> ms]

\* An entry of settled: how a provider call ended.
Settle(by, r) == [by |-> by, ok |-> r.ok, value |-> r.value, message |-> r.message]

VARIABLES
    GEMINI_API_KEY, \* process.env.GEMINI_API_KEY, read once at module load
    pc,             \* where each invocation is suspended
    caller,         \* who called generateContent: "direct" (both arguments),
                    \* "default" (the prompt only), "blogPost"
                    \* (generateBlogPost) or "autoGen" (generateAndSave)
    prompt,         \* generateContent's prompt
    maxRetries,     \* generateContent's maxRetries
    attempt,        \* the loop variable
    lastError,      \* let lastError
    outcome,        \* "pending", "returned" or "threw", of generateContent
    result,         \* the object generateContent returned
    thrown,         \* the message of the error generateContent threw
    trace,          \* the provider calls and delays the invocation started
    settled,        \* how its provider calls ended, in order
    overlapped,     \* whether it was in flight while another invocation was
    postOutcome,    \* "pending", "returned" or "threw", of generateBlogPost
    post,           \* the object generateBlogPost returned
    postThrown,     \* the message of the error generateBlogPost threw
    autoGen,        \* generateAndSave's topic and date
    effects,        \* the file, git, build and deploy steps generateAndSave made
    saved           \* the object generateAndSave returned

vars ==
    << GEMINI_API_KEY, pc, caller, prompt, maxRetries, attempt, lastError,
       outcome, result, thrown, trace, settled, overlapped, postOutcome, post,
       postThrown, autoGen, effects, saved >>

\* The state of generateAndSave.
saveVars == << autoGen, effects, saved >>

Init ==
    /\ GEMINI_API_KEY \in { Undefined, Str("key") }
    /\ pc = [i \in Invocations |-> "idle"]
    /\ caller = [i \in Invocations |-> "none"]
    /\ prompt = [i \in Invocations |-> ""]
    /\ maxRetries = [i \in Invocations |-> 0]
    /\ attempt = [i \in Invocations |-> 0]
    /\ lastError = [i \in Invocations |-> Null]
    /\ outcome = [i \in Invocations |-> "pending"]
    /\ result = [i \in Invocations |-> NoResult]
    /\ thrown = [i \in Invocations |-> ""]
    /\ trace = [i \in Invocations |-> << >>]
    /\ settled = [i \in Invocations |-> << >>]
    /\ overlapped = [i \in Invocations |-> FALSE]
    /\ postOutcome = [i \in Invocations |-> "pending"]
    /\ post = [i \in Invocations |-> NoResult]
    /\ postThrown = [i \in Invocations |-> ""]
    /\ autoGen = [i \in Invocations |-> NoResult]
    /\ effects = [i \in Invocations |-> << >>]
    /\ saved = [i \in Invocations |-> NoResult]

\* ----------------------------------------------------------- generateContent
\* The loop head, reached with attempt = att: either the next callGemini is
\* started, or the loop is left and callBigModel is started.
EnterLoop(i, m, att) ==
    /\ attempt' = [attempt EXCEPT ![i] = att]
    /\ IF LoopCond(att, m)
          THEN /\ pc' = [pc EXCEPT ![i] = "awaitGemini"]
               /\ trace' = [trace EXCEPT ![i] = Append(@, Ev("callGemini", 0))]
          ELSE /\ pc' = [pc EXCEPT ![i] = "awaitBigModel"]
               /\ trace' = [trace EXCEPT ![i] = Append(@, Ev("callBigModel", 0))]

\* Invocation i runs: it and every other invocation in flight overlap.
InFlight(j) == pc[j] \notin { "idle", "done" }

Runs(i) ==
    LET others == { j \in Invocations \ { i } : InFlight(j) } IN
      overlapped' = [j \in Invocations |->
                        overlapped[j] \/ j \in others \/ (j = i /\ others # {})]

\* Where the invocation goes once generateContent has settled: a direct
\* caller is done, generateBlogPost (called by a test or by generateAndSave)
\* resumes after its await.
AfterSettle(i) ==
    IF caller[i] \in { "blogPost", "autoGen" } THEN "resumeBlogPost" ELSE "done"

\* return {...}
ReturnResult(i, res) ==
    /\ outcome' = [outcome EXCEPT ![i] = "returned"]
    /\ result' = [result EXCEPT ![i] = res]
    /\ pc' = [pc EXCEPT ![i] = AfterSettle(i)]
    /\ UNCHANGED thrown

\* An exception leaves generateContent.
ThrowOut(i, msg) ==
    /\ outcome' = [outcome EXCEPT ![i] = "threw"]
    /\ thrown' = [thrown EXCEPT ![i] = msg]
    /\ pc' = [pc EXCEPT ![i] = AfterSettle(i)]
    /\ UNCHANGED result

\* lastError kept in one module-level variable that every invocation writes.
RecordLastErrorShared(le, i, msg) == [j \in DOMAIN le |-> ErrorObj(msg)]

\* catch (error) { lastError = error; ... }
RecordLastError(le, i, msg) == [le EXCEPT ![i] = ErrorObj(msg)]

\* generateContent(p, m) up to its first await.
generateContent(i, who, p, m) ==
    /\ pc[i] = "idle"
    /\ caller' = [caller EXCEPT ![i] = who]
    /\ prompt' = [prompt EXCEPT ![i] = p]
    /\ maxRetries' = [maxRetries EXCEPT ![i] = m]
    /\ lastError' = [lastError EXCEPT ![i] = Null]
    /\ EnterLoop(i, m, 1)
    /\ Runs(i)
    /\ UNCHANGED << GEMINI_API_KEY, outcome, result, thrown, settled,
                    postOutcome, post, postThrown >>

\* A caller passes both arguments.
CallWithRetries(i, p, m) ==
    generateContent(i, "direct", p, m) /\ UNCHANGED saveVars

\* A caller passes the prompt only: maxRetries takes its default.
CallDefault(i, p) ==
    generateContent(i, "default", p, DefaultMaxRetries) /\ UNCHANGED saveVars

\* The promise of callGemini settles: try-block return, or the catch block.
GeminiSettles(i, resp) ==
    /\ pc[i] = "awaitGemini"
    /\ Runs(i)
    /\ LET r == callGemini(GEMINI_API_KEY, resp) IN
       /\ settled' = [settled EXCEPT ![i] = Append(@, Settle("gemini", r))]
       /\ IF r.ok
            THEN /\ ReturnResult(i, PrimaryResult(r.value))
                 /\ UNCHANGED << attempt, lastError, trace >>
            ELSE /\ lastError' = RecordLastError(lastError, i, r.message)
                 /\ IF ShouldDelay(attempt[i], maxRetries[i])
                       THEN /\ pc' = [pc EXCEPT ![i] = "delay"]
                            /\ trace' = [trace EXCEPT ![i] =
                                   Append(@, Ev("delay", BackoffMs(attempt[i])))]
                            /\ UNCHANGED attempt
                       ELSE EnterLoop(i, maxRetries[i], attempt[i] + 1)
                 /\ UNCHANGED << outcome, result, thrown >>
    /\ UNCHANGED << GEMINI_API_KEY, caller, prompt, maxRetries,
                    postOutcome, post, postThrown, saveVars >>

\* The timer of delay(ms) fires: attempt++ and the loop head.
DelayElapses(i) ==
    /\ pc[i] = "delay"
    /\ EnterLoop(i, maxRetries[i], attempt[i] + 1)
    /\ Runs(i)
    /\ UNCHANGED << GEMINI_API_KEY, caller, prompt, maxRetries, lastError,
                    outcome, result, thrown, settled, postOutcome, post,
                    postThrown, saveVars >>

\* The promise of callBigModel settles: try-block return, or the catch block,
\* whose template literal reads lastError.message.
BigModelSettles(i, resp) ==
    /\ pc[i] = "awaitBigModel"
    /\ Runs(i)
    /\ LET r == callBigModel(resp) IN
       /\ settled' = [settled EXCEPT ![i] = Append(@, Settle("bigmodel", r))]
       /\ IF r.ok
            THEN ReturnResult(i, SecondaryResult(r.value))
            ELSE IF lastError[i] = Null
                    THEN ThrowOut(i, NullMessageTypeError)
                    ELSE ReturnResult(i, FailureResult(lastError[i].s, r.message))
    /\ UNCHANGED << GEMINI_API_KEY, caller, prompt, maxRetries, attempt,
                    lastError, trace, postOutcome, post, postThrown, saveVars >>

\* ---------------------------------------------------------- generateBlogPost
\* The prompt template: the Arabic text for language === 'ar', the English
\* text otherwise, each with the topic spliced in (texts abbreviated).
PromptTemplate(topic, language) ==
    IF language = "ar"
        THEN "[ar] \"" \o topic \o "\""
        ELSE "Write a professional article about \"" \o topic \o "\" in English."

Ch(s, k) == SubSeq(s, k, k)

\* \s of the regular expression, and the characters trim() strips.
IsSpace(c) == c \in { " ", "\n", "\t" }

\* String.prototype.trim
Trim(s) ==
    LET keep == { k \in 1..Len(s) : ~IsSpace(Ch(s, k)) } IN
      IF keep = {}
         THEN ""
         ELSE SubSeq(s, CHOOSE k \in keep : \A j \in keep : k <= j,
                        CHOOSE k \in keep : \A j \in keep : k >= j)

\* markdown.match(/^#\s*(.+)$/m): '#' at the start of a line, then greedy
\* white space (line breaks included), then one or more characters other
\* than a line break up to the end of that line.  TitleStarts(s, p) are the
\* places where the group can start for a '#' at p.
TitleStarts(s, p) ==
    { q \in (p + 1)..Len(s) :
        /\ \A k \in (p + 1)..(q - 1) : IsSpace(Ch(s, k))
        /\ Ch(s, q) # "\n" }

HashPlaces(s) ==
    { p \in 1..Len(s) :
        /\ p = 1 \/ Ch(s, p - 1) = "\n"
        /\ Ch(s, p) = "#"
        /\ TitleStarts(s, p) # {} }

LineEnd(s, q) ==
    CHOOSE r \in q..Len(s) :
        /\ \A k \in q..r : Ch(s, k) # "\n"
        /\ r = Len(s) \/ Ch(s, r + 1) = "\n"

\* extractTitle, of a string.
extractTitle(markdown) ==
    IF HashPlaces(markdown) = {}
       THEN "Untitled"
       ELSE LET p == CHOOSE x \in HashPlaces(markdown) :
                        \A y \in HashPlaces(markdown) : x <= y
                q == CHOOSE x \in TitleStarts(markdown, p) :
                        \A y \in TitleStarts(markdown, p) : x >= y
            IN  Trim(SubSeq(markdown, q, LineEnd(markdown, q)))

\* markdown.match on a value that is no string.
MatchTypeError == "markdown.match is not a function"

\* The object generateBlogPost returns.
BlogPost(res, timestamp) ==
    [title |-> extractTitle(res.content.s), content |-> res.content,
     source |-> res.source, fallbackUsed |-> res.fallbackUsed,
     timestamp |-> timestamp]

\* generateBlogPost(topic, language) up to its await of generateContent.
generateBlogPost(i, topic, language) ==
    /\ generateContent(i, "blogPost", PromptTemplate(topic, language),
                       DefaultMaxRetries)
    /\ UNCHANGED saveVars

\* generateBlogPost after its await: the throw on !result.success, or the
\* post built from the result at the time timestamp.
BlogPostResumes(i, timestamp) ==
    /\ pc[i] = "resumeBlogPost"
    /\ pc' = [pc EXCEPT ![i] =
                 IF caller[i] = "autoGen" THEN "resumeAutoGen" ELSE "done"]
    /\ Runs(i)
    /\ IF outcome[i] = "threw"
          THEN /\ postOutcome' = [postOutcome EXCEPT ![i] = "threw"]
               /\ postThrown' = [postThrown EXCEPT ![i] = thrown[i]]
               /\ UNCHANGED post
       ELSE IF ~result[i].success
          THEN /\ postOutcome' = [postOutcome EXCEPT ![i] = "threw"]
               /\ postThrown' = [postThrown EXCEPT ![i] =
                      "All AI providers failed: " \o result[i].error]
               /\ UNCHANGED post
       ELSE IF result[i].content.t # "string"
          THEN /\ postOutcome' = [postOutcome EXCEPT ![i] = "threw"]
               /\ postThrown' = [postThrown EXCEPT ![i] = MatchTypeError]
               /\ UNCHANGED post
       ELSE /\ postOutcome' = [postOutcome EXCEPT ![i] = "returned"]
            /\ post' = [post EXCEPT ![i] = BlogPost(result[i], timestamp)]
            /\ UNCHANGED postThrown
    /\ UNCHANGED << GEMINI_API_KEY, caller, prompt, maxRetries, attempt,
                    lastError, outcome, result, thrown, trace, settled,
                    saveVars >>

\* ----------------------------------------------------------- generateAndSave
\* new Date(): year, month (0-based, as getMonth gives it) and day.
Dates == { [year |-> 2026, month |-> 0, day |-> 1],
           [year |-> 2026, month |-> 10, day |-> 12] }

\* String(n).padStart(2, '0')
Pad2(n) == IF n < 10 THEN "0" \o ToString(n) ELSE ToString(n)

formatDate(d) ==
    ToString(d.year) \o "-" \o Pad2(d.month + 1) \o "-" \o Pad2(d.day)

MonthNames ==
    << "Jan", "Feb", "Mar", "Apr", "May", "Jun",
       "Jul", "Aug", "Sep", "Oct", "Nov", "Dec" >>

formatFrontmatterDate(d) ==
    MonthNames[d.month + 1] \o " " \o Pad2(d.day) \o " " \o ToString(d.year)

UpperCase == "ABCDEFGHIJKLMNOPQRSTUVWXYZ"
LowerCase == "abcdefghijklmnopqrstuvwxyz"

\* \w of the regular expressions.
WordChars ==
    { Ch(UpperCase, k) : k \in 1..Len(UpperCase) }
        \cup { Ch(LowerCase, k) : k \in 1..Len(LowerCase) }
        \cup { "0", "1", "2", "3", "4", "5", "6", "7", "8", "9", "_" }

\* toLowerCase, of one character.
LowerChar(c) ==
    IF \E k \in 1..Len(UpperCase) : Ch(UpperCase, k) = c
       THEN Ch(LowerCase, CHOOSE k \in 1..Len(UpperCase) : Ch(UpperCase, k) = c)
       ELSE c

RECURSIVE ToLowerFrom(_, _)
ToLowerFrom(s, k) ==
    IF k > Len(s) THEN "" ELSE LowerChar(Ch(s, k)) \o ToLowerFrom(s, k + 1)

\* The end of the run of characters of cls that starts at k.
RunEnd(s, k, cls) ==
    CHOOSE e \in k..Len(s) :
        /\ \A j \in k..e : Ch(s, j) \in cls
        /\ e = Len(s) \/ Ch(s, e + 1) \notin cls

\* replace(/[cls]+/g, with): every maximal run of characters of cls.
RECURSIVE ReplaceRuns(_, _, _, _)
ReplaceRuns(s, k, cls, with) ==
    IF k > Len(s) THEN ""
    ELSE IF Ch(s, k) \in cls
       THEN with \o ReplaceRuns(s, RunEnd(s, k, cls) + 1, cls, with)
       ELSE Ch(s, k) \o ReplaceRuns(s, k + 1, cls, with)

\* replace(/[^cls]+/g, ''): only the characters of cls stay.
RECURSIVE KeepOnly(_, _, _)
KeepOnly(s, k, cls) ==
    IF k > Len(s) THEN ""
    ELSE (IF Ch(s, k) \in cls THEN Ch(s, k) ELSE "") \o KeepOnly(s, k + 1, cls)

slugify(text) ==
    LET lower == Trim(ToLowerFrom(text, 1))
        dashed == ReplaceRuns(lower, 1, { " ", "\n", "\t" }, "-")
        kept == KeepOnly(dashed, 1, WordChars \cup { "-" })
    IN  ReplaceRuns(kept, 1, { "-" }, "-")

\* replace(/#+ /g, ''): a run of '#' goes with the space after it, and
\* stays when no space follows it.
RECURSIVE StripHashes(_, _)
StripHashes(s, k) ==
    IF k > Len(s) THEN ""
    ELSE IF Ch(s, k) = "#"
       THEN LET e == RunEnd(s, k, { "#" }) IN
              IF e < Len(s) /\ Ch(s, e + 1) = " "
                 THEN StripHashes(s, e + 2)
                 ELSE SubSeq(s, k, e) \o StripHashes(s, e + 1)
    ELSE Ch(s, k) \o StripHashes(s, k + 1)

\* replace(/\n/g, ' '): every line break, one by one.
RECURSIVE ReplaceChar(_, _, _, _)
ReplaceChar(s, k, from, to) ==
    IF k > Len(s) THEN ""
    ELSE (IF Ch(s, k) = from THEN to ELSE Ch(s, k)) \o ReplaceChar(s, k + 1, from, to)

\* extractDescription: the Markdown marks removed ('**' then '*': every
\* '*'), line breaks made spaces, trimmed, the first 150 characters, '...'.
extractDescription(content) ==
    LET noHash == StripHashes(content, 1)
        noStar == ReplaceRuns(noHash, 1, { "*" }, "")
        plainText == Trim(ReplaceChar(noStar, 1, "\n", " "))
    IN  SubSeq(plainText, 1, IF Len(plainText) < 150 THEN Len(plainText) ELSE 150)
            \o "..."

\* generateFrontmatter
generateFrontmatter(title, description, date, image) ==
    "---\ntitle: '" \o title \o "'\ndescription: '" \o description
        \o "'\npubDate: '" \o formatFrontmatterDate(date) \o "'\n"
        \o (IF image # "" THEN "heroImage: '" \o image \o "'" ELSE "")
        \o "\n---\n\n"

HeroImage == "../../assets/blog-placeholder-3.jpg"

\* What the file system and the child processes do in one run: whether the
\* post's file and the blog directory exist, and whether mkdirSync,
\* writeFileSync and each execSync succeed.  A file that exists lies in a
\* directory that exists.
SaveEnvs ==
    { e \in [ fileExists : BOOLEAN, dirExists : BOOLEAN, mkdirOk : BOOLEAN,
              writeOk : BOOLEAN, addOk : BOOLEAN, commitOk : BOOLEAN,
              pushOk : BOOLEAN, buildOk : BOOLEAN, deployOk : BOOLEAN ] :
        e.fileExists => e.dirExists }

\* An entry of effects: a step made, on which file, with which data.
Fx(op, ok, file, data) == [op |-> op, ok |-> ok, file |-> file, data |-> data]

\* The return of a run that saved the post, with the hard-coded primary.
SavedResultAsPrimary(p, filename) ==
    [success |-> TRUE, source |-> "gemini", fallbackUsed |-> FALSE,
     filename |-> filename, title |-> p.title]

\* return { success: true, source, fallbackUsed, filename, title }
SavedResult(p, filename) ==
    [success |-> TRUE, source |-> p.source, fallbackUsed |-> p.fallbackUsed,
     filename |-> filename, title |-> p.title]

\* catch (error) { return { success: false, error: error.message } }
SaveFailure(msg) == [success |-> FALSE, error |-> msg]

\* generateAndSave from the post p on: the steps made and the value returned.
SaveRun(p, date, env) ==
    LET dateStr == formatDate(date)
        filename == dateStr \o "-" \o slugify(p.title) \o ".md"
        fullContent ==
            generateFrontmatter(p.title, extractDescription(p.content.s),
                                date, HeroImage) \o p.content.s
        commitMessage == "auto: " \o p.title \o " (" \o dateStr \o ")"
        mk == IF env.dirExists THEN << >>
                               ELSE << Fx("mkdir", env.mkdirOk, "", "") >>
        wr == Append(mk, Fx("write", env.writeOk, filename, fullContent))
        ad == Append(wr, Fx("git add", env.addOk, "", ""))
        co == Append(ad, Fx("git commit", env.commitOk, "", commitMessage))
        pu == Append(co, Fx("git push", env.pushOk, "", ""))
        bu == Append(pu, Fx("build", env.buildOk, "", ""))
        de == IF env.buildOk
                 THEN Append(bu, Fx("deploy", env.deployOk, "", ""))
                 ELSE bu
    IN  IF env.fileExists
           THEN [steps |-> << >>,
                 ret |-> [success |-> FALSE, reason |-> "duplicate"]]
        ELSE IF ~env.dirExists /\ ~env.mkdirOk
           THEN [steps |-> mk, ret |-> SaveFailure("mkdir failed")]
        ELSE IF ~env.writeOk
           THEN [steps |-> wr, ret |-> SaveFailure("write failed")]
        ELSE IF ~env.addOk
           THEN [steps |-> ad, ret |-> SaveFailure("Command failed: git add")]
        ELSE [steps |-> de, ret |-> SavedResult(p, filename)]

\* generateAndSave up to its await of generateBlogPost(topic, 'ar').
generateAndSave(i, topic, date) ==
    /\ generateContent(i, "autoGen", PromptTemplate(topic, "ar"),
                       DefaultMaxRetries)
    /\ autoGen' = [autoGen EXCEPT ![i] = [topic |-> topic, date |-> date]]
    /\ UNCHANGED << effects, saved >>

\* generateAndSave after its await: the catch block when generateBlogPost
\* threw, the file, git, build and deploy steps otherwise.
AutoGenResumes(i, env) ==
    /\ pc[i] = "resumeAutoGen"
    /\ pc' = [pc EXCEPT ![i] = "done"]
    /\ Runs(i)
    /\ IF postOutcome[i] = "threw"
          THEN /\ saved' = [saved EXCEPT ![i] = SaveFailure(postThrown[i])]
               /\ UNCHANGED effects
          ELSE LET run == SaveRun(post[i], autoGen[i].date, env) IN
                 /\ saved' = [saved EXCEPT ![i] = run.ret]
                 /\ effects' = [effects EXCEPT ![i] = run.steps]
    /\ UNCHANGED << GEMINI_API_KEY, caller, prompt, maxRetries, attempt,
                    lastError, outcome, result, thrown, trace, settled,
                    postOutcome, post, postThrown, autoGen >>

\* ------------------------------------------------------------ specifications
\* One invocation at a time: every retry count, every provider behaviour.
Next ==
    \/ \E p \in Prompts, m \in 0..MaxRetriesBound : CallWithRetries(1, p, m)
    \/ \E p \in Prompts : CallDefault(1, p)
    \/ \E topic \in Topics, language \in Languages :
           generateBlogPost(1, topic, language)
    \/ \E resp \in Responses : GeminiSettles(1, resp)
    \/ DelayElapses(1)
    \/ \E resp \in Responses : BigModelSettles(1, resp)
    \/ \E ts \in Timestamps : BlogPostResumes(1, ts)
    \/ \E topic \in Topics, date \in Dates : generateAndSave(1, topic, date)
    \/ \E env \in SaveEnvs : AutoGenResumes(1, env)

Spec == Init /\ [][Next]_vars

\* Two invocations of generateContent interleaved at their awaits.
NextConc ==
    \E i \in Invocations :
        \/ \E p \in Prompts, m \in 0..ConcRetriesBound : CallWithRetries(i, p, m)
        \/ \E resp \in ConcResponses : GeminiSettles(i, resp)
        \/ DelayElapses(i)
        \/ \E resp \in ConcResponses : BigModelSettles(i, resp)

SpecConc == Init /\ [][NextConc]_vars

\* ------------------------------------------------------- reading the history
\* The number of events called name in a trace.
RECURSIVE CountEv(_, _)
CountEv(tr, name) ==
    IF tr = << >>
       THEN 0
       ELSE (IF Head(tr).ev = name THEN 1 ELSE 0) + CountEv(Tail(tr), name)

GeminiCalls(i) == CountEv(trace[i], "callGemini")
BigModelCalls(i) == CountEv(trace[i], "callBigModel")
Delays(i) == CountEv(trace[i], "delay")

RECURSIVE SumMs(_)
SumMs(tr) == IF tr = << >> THEN 0 ELSE Head(tr).ms + SumMs(Tail(tr))

\* t occurs in s.
Contains(s, t) ==
    \E k \in 1..(Len(s) - Len(t) + 1) : SubSeq(s, k, k + Len(t) - 1) = t

\* The primary attempts 1..k-1 of invocation i failed and attempt k succeeded.
SucceededAt(i, k) ==
    /\ Len(settled[i]) >= k
    /\ \A j \in 1..(k - 1) : settled[i][j].by = "gemini" /\ ~settled[i][j].ok
    /\ settled[i][k].by = "gemini" /\ settled[i][k].ok

\* The first n provider calls of invocation i were primary calls that failed.
PrimaryFailed(i, n) ==
    /\ Len(settled[i]) >= n
    /\ \A j \in 1..n : settled[i][j].by = "gemini" /\ ~settled[i][j].ok

\* The secondary call of invocation i has settled; it is its last call.
SecondarySettled(i) ==
    /\ settled[i] # << >>
    /\ settled[i][Len(settled[i])].by = "bigmodel"

LastSettled(i) == settled[i][Len(settled[i])]

\* ------------------------------------------------------------------- claims

\* C1: for maxRetries >= 1 and 1 <= k <= maxRetries, when primary attempts
\* 1..k-1 fail and attempt k succeeds, generateContent returns success=true,
\* source='gemini', fallbackUsed=false and the text of attempt k, after
\* exactly k primary calls and no secondary call.
C1_PrimarySuccess ==
    \A i \in Invocations : \A k \in 1..maxRetries[i] :
        SucceededAt(i, k) =>
            /\ outcome[i] = "returned"
            /\ result[i] = [success |-> TRUE, source |-> "gemini",
                            content |-> settled[i][k].value,
                            fallbackUsed |-> FALSE]
            /\ GeminiCalls(i) = k
            /\ BigModelCalls(i) = 0

\* A primary success on the last of three attempts, after two failures.
C1_Witness ==
    \E i \in Invocations :
        /\ maxRetries[i] = 3
        /\ SucceededAt(i, 3)
        /\ settled[i][1].message # settled[i][2].message

\* C2: for maxRetries >= 1, when all maxRetries primary attempts fail, of
\* whatever kind the failures are, and the secondary call succeeds,
\* generateContent returns success=true, source='bigmodel',
\* fallbackUsed=true and the secondary's text.
C2_SecondarySuccess ==
    \A i \in Invocations :
        ( /\ maxRetries[i] >= 1
          /\ PrimaryFailed(i, maxRetries[i])
          /\ Len(settled[i]) = maxRetries[i] + 1
          /\ LastSettled(i).by = "bigmodel"
          /\ LastSettled(i).ok )
        => /\ outcome[i] = "returned"
           /\ result[i] = [success |-> TRUE, source |-> "bigmodel",
                           content |-> LastSettled(i).value,
                           fallbackUsed |-> TRUE]

\* Two primary failures of different kinds, then a secondary success.
C2_Witness ==
    \E i \in Invocations :
        /\ maxRetries[i] = 2
        /\ PrimaryFailed(i, 2)
        /\ settled[i][1].message # settled[i][2].message
        /\ Len(settled[i]) = 3
        /\ LastSettled(i).by = "bigmodel"
        /\ LastSettled(i).ok
        /\ outcome[i] = "returned"

\* C3: when every primary attempt fails and the secondary call fails too,
\* generateContent returns success=false, source='none', fallbackUsed=true
\* and an error string that contains the message of the last failed primary
\* attempt and the secondary's message.
C3_DoubleFailure ==
    \A i \in Invocations :
        ( /\ SecondarySettled(i)
          /\ ~LastSettled(i).ok
          /\ PrimaryFailed(i, Len(settled[i]) - 1) )
        => /\ outcome[i] = "returned"
           /\ result[i].success = FALSE
           /\ result[i].source = "none"
           /\ result[i].fallbackUsed = TRUE
           /\ HasField(result[i], "error")
           /\ Contains(result[i].error, LastSettled(i).message)
           /\ Len(settled[i]) > 1 =>
                 Contains(result[i].error,
                          settled[i][Len(settled[i]) - 1].message)

\* C4: with maxRetries=0, generateContent makes at least one primary attempt
\* before it falls back to the secondary.
C4_ZeroRetriesStillTries ==
    \A i \in Invocations :
        (maxRetries[i] = 0 /\ BigModelCalls(i) >= 1) => GeminiCalls(i) >= 1

\* A GenerationResult: the fields of the record and their types.
IsGenerationResult(r) ==
    /\ { "success", "source", "content", "fallbackUsed" } \subseteq DOMAIN r
    /\ DOMAIN r \subseteq { "success", "source", "content", "fallbackUsed", "error" }
    /\ r.success \in BOOLEAN
    /\ r.fallbackUsed \in BOOLEAN
    /\ r.source \in { "gemini", "bigmodel", "none" }
    /\ ~r.success => HasField(r, "error") /\ r.error # ""

\* C5: for every retry count, 0 included, and every pattern of provider
\* successes and failures, an invocation ends by returning a
\* GenerationResult; no exception leaves generateContent, a failure being
\* reported as success=false with an error string.
C5_AlwaysReturns ==
    \A i \in Invocations :
        /\ outcome[i] # "threw"
        /\ outcome[i] = "returned" => IsGenerationResult(result[i])
        /\ (SecondarySettled(i) \/ (settled[i] # << >> /\ LastSettled(i).ok))
               => outcome[i] = "returned"

\* C6: every returned GenerationResult has: success=false implies content
\* null and error present; source='none' only when success=false;
\* success=true implies source primary or secondary and content a non-empty
\* string.
C6_ResultInvariant ==
    \A i \in Invocations :
        outcome[i] = "returned" =>
            /\ ~result[i].success =>
                   /\ result[i].content = Null
                   /\ HasField(result[i], "error")
                   /\ result[i].error # ""
            /\ result[i].source = "none" => ~result[i].success
            /\ result[i].success =>
                   /\ result[i].source \in { "gemini", "bigmodel" }
                   /\ result[i].content.t = "string"
                   /\ result[i].content.s # ""

\* The number of callGemini events among the first x events of a trace.
GeminiBefore(tr, x) == CountEv(SubSeq(tr, 1, x), "callGemini")

\* C7: in one invocation the secondary is called at most once, only after
\* maxRetries primary attempts that all failed; no primary call follows a
\* secondary call; the primary calls never exceed maxRetries; and in every
\* returned result fallbackUsed=true exactly when the secondary was called.
C7_CallOrder ==
    \A i \in Invocations :
        /\ BigModelCalls(i) <= 1
        /\ GeminiCalls(i) <= maxRetries[i]
        /\ \A x \in 1..Len(trace[i]) :
              trace[i][x].ev = "callBigModel" =>
                  /\ GeminiBefore(trace[i], x) = maxRetries[i]
                  /\ PrimaryFailed(i, maxRetries[i])
                  /\ \A y \in (x + 1)..Len(trace[i]) :
                         trace[i][y].ev # "callGemini"
        /\ outcome[i] = "returned" =>
              (result[i].fallbackUsed <=> BigModelCalls(i) = 1)

\* The secondary was called after three failed primary attempts, and the
\* result is returned.
C7_Witness ==
    \E i \in Invocations :
        /\ maxRetries[i] = 3
        /\ GeminiCalls(i) = 3
        /\ BigModelCalls(i) = 1
        /\ outcome[i] = "returned"
        /\ result[i].fallbackUsed

\* C8: a post that generateBlogPost returns carries a truthy success field,
\* so the tests' check if (!post.success) throw does not fire.
C8_PostHasSuccess ==
    \A i \in Invocations :
        postOutcome[i] = "returned" =>
            /\ HasField(post[i], "success")
            /\ post[i].success = TRUE

\* Where delays stand, and how long they are: a delay directly follows a
\* failed primary attempt a < maxRetries, lasts BaseDelayMs * a, and is
\* followed by the next primary attempt and by nothing else; and every
\* failed primary attempt a < maxRetries is followed by such a delay.
DelaysWellPlaced(i) ==
    /\ \A x \in 1..Len(trace[i]) :
          trace[i][x].ev = "delay" =>
              LET a == GeminiBefore(trace[i], x) IN
                /\ x > 1
                /\ trace[i][x - 1].ev = "callGemini"
                /\ a < maxRetries[i]
                /\ PrimaryFailed(i, a)
                /\ trace[i][x].ms = BaseDelayMs * a
                /\ x < Len(trace[i]) => trace[i][x + 1].ev = "callGemini"
    /\ \A x \in 1..Len(trace[i]) :
          LET a == GeminiBefore(trace[i], x) IN
            ( /\ trace[i][x].ev = "callGemini"
              /\ Len(settled[i]) >= a ) =>
                IF ~settled[i][a].ok /\ a < maxRetries[i]
                   THEN /\ x < Len(trace[i])
                        /\ trace[i][x + 1] = Ev("delay", BaseDelayMs * a)
                   ELSE x < Len(trace[i]) => trace[i][x + 1].ev # "delay"
    /\ \A x \in 1..Len(trace[i]) :
          trace[i][x].ev = "callBigModel" =>
              /\ x = Len(trace[i])
              /\ x > 1 => trace[i][x - 1].ev = "callGemini"

\* All maxRetries primary attempts of invocation i have failed.
AllPrimaryFailed(i) == pc[i] # "idle" /\ PrimaryFailed(i, maxRetries[i])

\* C9, as stated: delays occur only between two consecutive primary
\* attempts, i x 1000 ms after failed attempt i < maxRetries, and an
\* invocation whose primary attempts all fail performs exactly
\* maxRetries-1 delays, totalling 1000 x maxRetries x (maxRetries-1) / 2.
C9_BackoffAsStated ==
    \A i \in Invocations :
        /\ DelaysWellPlaced(i)
        /\ AllPrimaryFailed(i) =>
              /\ Delays(i) = maxRetries[i] - 1
              /\ SumMs(trace[i]) =
                     (BaseDelayMs * maxRetries[i] * (maxRetries[i] - 1)) \div 2

\* C9, amended: the same, with the number of delays of an invocation whose
\* primary attempts all fail being maxRetries-1 for maxRetries >= 1 and 0
\* for maxRetries = 0.
C9_Backoff ==
    \A i \in Invocations :
        /\ DelaysWellPlaced(i)
        /\ AllPrimaryFailed(i) =>
              /\ Delays(i) = IF maxRetries[i] >= 1 THEN maxRetries[i] - 1 ELSE 0
              /\ SumMs(trace[i]) =
                     (BaseDelayMs * maxRetries[i] * (maxRetries[i] - 1)) \div 2

\* Three primary attempts failed: two delays, of 1000 and 2000 ms.
C9_Witness ==
    \E i \in Invocations :
        /\ maxRetries[i] = 3
        /\ AllPrimaryFailed(i)
        /\ Delays(i) = 2
        /\ SumMs(trace[i]) = 3 * BaseDelayMs

\* generateContent run alone with retry count m, its provider calls ending
\* as outs says, in order: the loop from attempt att with lastError = le.
RECURSIVE RunFrom(_, _, _, _)
RunFrom(m, att, le, outs) ==
    IF outs = << >>
       THEN [outcome |-> "pending", result |-> NoResult, thrown |-> ""]
    ELSE IF LoopCond(att, m)
       THEN IF Head(outs).ok
               THEN [outcome |-> "returned",
                     result |-> PrimaryResult(Head(outs).value), thrown |-> ""]
               ELSE RunFrom(m, att + 1, ErrorObj(Head(outs).message), Tail(outs))
    ELSE IF Head(outs).ok
       THEN [outcome |-> "returned",
             result |-> SecondaryResult(Head(outs).value), thrown |-> ""]
    ELSE IF le = Null
       THEN [outcome |-> "threw", result |-> NoResult,
             thrown |-> NullMessageTypeError]
    ELSE [outcome |-> "returned",
          result |-> FailureResult(le.s, Head(outs).message), thrown |-> ""]

RunAlone(m, outs) == RunFrom(m, 1, Null, outs)

\* C10: invocations share no mutable state: interleaved at their awaits,
\* each ends as it would run alone with its own retry count and the
\* outcomes of its own provider calls, the primary failure reason of a
\* double-failure error included.
C10_NoSharedState ==
    \A i \in Invocations :
        pc[i] # "idle" =>
            [outcome |-> outcome[i], result |-> result[i], thrown |-> thrown[i]]
                = RunAlone(maxRetries[i], settled[i])

\* Two overlapping invocations both ended in a double failure, with
\* different primary failure reasons.
C10_Witness ==
    /\ \A i \in Invocations :
          /\ overlapped[i]
          /\ outcome[i] = "returned"
          /\ ~result[i].success
    /\ lastError[1].s # lastError[2].s
    /\ result[1].error # result[2].error

\* C11: in generateAndSave, when generation fails at both providers
\* (generateBlogPost throws 'All AI providers failed'), the run returns
\* {success: false, error} and makes no file write, no git add, commit or
\* push and no build or deploy; a file write and every git, build or deploy
\* step happens only after a generation result with success=true; and the
\* source and fallbackUsed it returns are those of generateContent's result.
C11_SaveOnlyAfterSuccess ==
    \A i \in Invocations :
        caller[i] = "autoGen" =>
            /\ ( /\ pc[i] = "done"
                 /\ outcome[i] = "returned"
                 /\ ~result[i].success )
               => /\ saved[i] = [success |-> FALSE,
                                 error |-> "All AI providers failed: "
                                               \o result[i].error]
                  /\ effects[i] = << >>
            /\ effects[i] # << >> =>
                  /\ outcome[i] = "returned"
                  /\ result[i].success
            /\ (saved[i] # NoResult /\ saved[i].success) =>
                  /\ saved[i].source = result[i].source
                  /\ saved[i].fallbackUsed = result[i].fallbackUsed

\* A run of generateAndSave ended after both providers failed.
C11_Witness ==
    \E i \in Invocations :
        /\ caller[i] = "autoGen"
        /\ pc[i] = "done"
        /\ outcome[i] = "returned"
        /\ ~result[i].success
        /\ ~saved[i].success
        /\ Contains(saved[i].error, "All AI providers failed")

====
